---- MODULE Spec2Model ----
(***************************************************************************)
(* The reparse point codec of reparse.go: EncodeReparsePoint and           *)
(* DecodeReparsePoint over byte buffers.                                   *)
(*                                                                         *)
(* Representation.  A byte is a number in 0..255 and a Go string is the    *)
(* tuple of its bytes.  A uint16 is a number in 0..65535 (arithmetic is    *)
(* taken modulo 2^16).  A uint32 is the pair <<hi, lo>> of its 16-bit      *)
(* halves, because the tags do not fit the integers of the model checker.  *)
(* A []byte is the record [nil, arr, len]: arr holds the bytes from the    *)
(* slice's start to its capacity, len is the slice's length.  A pointer    *)
(* to a ReparsePoint is << >> (nil) or a one-element tuple.                *)
(***************************************************************************)
EXTENDS Integers, Sequences, FiniteSets, TLC

VARIABLES rp, buf, res, pc

vars == << rp, buf, res, pc >>

(***************************************************************************)
(* Bounds of the model.                                                    *)
(***************************************************************************)
MaxLen == 2      \* characters that follow the prefix of a short target
MaxSpare == 1    \* spare capacity of a buffer, in bytes
MaxUnits == 3    \* UTF-16 code units in the path area of a raw buffer
MaxLxBytes == 3  \* bytes after the version field of a raw LX payload

Pow8 == 16 * 16
Pow16 == Pow8 * Pow8

(***************************************************************************)
(* Constants of reparse.go.                                                *)
(***************************************************************************)
reparseTagMountPoint == << 40960, 3 >>      \* 0xA0000003
reparseTagSymlink == << 40960, 12 >>        \* 0xA000000C
reparseTagLxSymlink == << 40960, 29 >>      \* 0xA000001D
lxSymlinkVersion == 2
\* a variant that counts two bytes of padding
sizeofReparseDataBuffer_Padded == 4 + 2 + 2 + 2 + 2 + 2 + 2 + 2
sizeofReparseDataBuffer == 4 + 2 + 2 + 2 + 2 + 2 + 2

\* the function f over 1..n as the tuple of its values
Tuple(f) == f \o << >>

Repeat(c, n) == Tuple([i \in 1..n |-> c])

(***************************************************************************)
(* Slices.                                                                 *)
(***************************************************************************)
NilSlice == [nil |-> TRUE, arr |-> << >>, len |-> 0]
MkSlice(bytes, spare) ==
  [nil |-> FALSE, arr |-> bytes \o Repeat(0, spare), len |-> Len(bytes)]
Cap(b) == Len(b.arr)
\* b[lo:hi] is legal when lo <= hi <= cap(b)
SliceOK(b, lo, hi) == 0 <= lo /\ lo <= hi /\ hi <= Cap(b)
Slice(b, lo, hi) ==
  [nil |-> FALSE, arr |-> SubSeq(b.arr, lo + 1, Cap(b)), len |-> hi - lo]

(***************************************************************************)
(* encoding/binary, little endian.                                         *)
(***************************************************************************)
Uint16LE(a, i) == a[i + 1] + Pow8 * a[i + 2]
\* a variant that reads the most significant byte first
Uint32LE_BigEndian(a, i) ==
  << a[i + 2] + Pow8 * a[i + 1], a[i + 4] + Pow8 * a[i + 3] >>
Uint32LE(a, i) == << Uint16LE(a, i + 2), Uint16LE(a, i) >>
PutUint16(v) == << v % Pow8, v \div Pow8 >>
PutUint32(v) == PutUint16(v[2]) \o PutUint16(v[1])
\* a variant that writes the most significant byte first
WriteUint16s_BigEndian(u) ==
  Tuple([i \in 1..(2 * Len(u)) |->
           IF i % 2 = 1 THEN u[(i + 1) \div 2] \div Pow8
           ELSE u[i \div 2] % Pow8])
\* binary.Write of a []uint16
WriteUint16s(u) ==
  Tuple([i \in 1..(2 * Len(u)) |->
           IF i % 2 = 1 THEN u[(i + 1) \div 2] % Pow8
           ELSE u[i \div 2] \div Pow8])
\* binary.Read into a []uint16 of n elements
ReadUint16s(a, n) == Tuple([j \in 1..n |-> Uint16LE(a, 2 * (j - 1))])

(***************************************************************************)
(* unicode/utf8: []rune(string) and string([]rune).                        *)
(***************************************************************************)
RuneError == 65533
IsCont(b) == b >= 128 /\ b <= 191
ByteAt(s, i) == IF i >= 1 /\ i <= Len(s) THEN s[i] ELSE Pow8

\* the number of bytes the rune that starts at byte i takes; 1 when the
\* bytes there are not a well-formed encoding
SizeAt(s, i) ==
  LET b0 == s[i]
      b1 == ByteAt(s, i + 1)
      b2 == ByteAt(s, i + 2)
      b3 == ByteAt(s, i + 3)
  IN  IF b0 < 128 THEN 1
      ELSE IF b0 >= 194 /\ b0 <= 223 THEN (IF IsCont(b1) THEN 2 ELSE 1)
      ELSE IF b0 >= 224 /\ b0 <= 239
        THEN LET lo == IF b0 = 224 THEN 160 ELSE 128
                 hi == IF b0 = 237 THEN 159 ELSE 191
             IN  IF b1 >= lo /\ b1 <= hi /\ IsCont(b2) THEN 3 ELSE 1
      ELSE IF b0 >= 240 /\ b0 <= 244
        THEN LET lo == IF b0 = 240 THEN 144 ELSE 128
                 hi == IF b0 = 244 THEN 143 ELSE 191
             IN  IF b1 >= lo /\ b1 <= hi /\ IsCont(b2) /\ IsCont(b3)
                   THEN 4 ELSE 1
      ELSE 1

RuneAt(s, i) ==
  LET n == SizeAt(s, i)
      b0 == s[i]
  IN  IF n = 1 THEN (IF b0 < 128 THEN b0 ELSE RuneError)
      ELSE IF n = 2 THEN (b0 % 32) * 64 + (s[i + 1] % 64)
      ELSE IF n = 3
        THEN (b0 % 16) * 4096 + (s[i + 1] % 64) * 64 + (s[i + 2] % 64)
      ELSE (b0 % 8) * 262144 + (s[i + 1] % 64) * 4096
             + (s[i + 2] % 64) * 64 + (s[i + 3] % 64)

\* byte i starts a rune unless a well-formed multi-byte rune before it
\* covers it (only continuation bytes are ever covered)
IsStart(s, i) ==
  \/ ~IsCont(s[i])
  \/ ~\E k \in 1..3 : i - k >= 1 /\ SizeAt(s, i - k) > k

Runes(s) ==
  LET idx == SelectSeq([i \in 1..Len(s) |-> i], LAMBDA i : IsStart(s, i))
  IN  Tuple([j \in 1..Len(idx) |-> RuneAt(s, idx[j])])

EncodeRune(r) ==
  LET c == IF r < 0 \/ r > 1114111 \/ (r >= 55296 /\ r <= 57343)
             THEN RuneError ELSE r
  IN  IF c < 128 THEN << c >>
      ELSE IF c < 2048 THEN << 192 + (c \div 64), 128 + (c % 64) >>
      ELSE IF c < 65536
        THEN << 224 + (c \div 4096), 128 + ((c \div 64) % 64), 128 + (c % 64) >>
      ELSE << 240 + (c \div 262144), 128 + ((c \div 4096) % 64),
              128 + ((c \div 64) % 64), 128 + (c % 64) >>

RECURSIVE EncodeRunes(_, _, _)
EncodeRunes(r, lo, hi) ==
  IF lo > hi THEN << >>
  ELSE IF lo = hi THEN EncodeRune(r[lo])
  ELSE LET mid == (lo + hi) \div 2
       IN  EncodeRunes(r, lo, mid) \o EncodeRunes(r, mid + 1, hi)

StringOfRunes(r) == EncodeRunes(r, 1, Len(r))

(***************************************************************************)
(* unicode/utf16.                                                          *)
(***************************************************************************)
IsHighSurrogate(u) == u >= 55296 /\ u <= 56319
IsLowSurrogate(u) == u >= 56320 /\ u <= 57343

utf16EncodeRune(r) ==
  IF r >= 65536 /\ r <= 1114111
    THEN << 55296 + ((r - 65536) \div 1024), 56320 + ((r - 65536) % 1024) >>
  ELSE IF r < 0 \/ r > 1114111 \/ (r >= 55296 /\ r <= 57343)
    THEN << RuneError >>
  ELSE << r >>

RECURSIVE utf16EncodeRange(_, _, _)
utf16EncodeRange(r, lo, hi) ==
  IF lo > hi THEN << >>
  ELSE IF lo = hi THEN utf16EncodeRune(r[lo])
  ELSE LET mid == (lo + hi) \div 2
       IN  utf16EncodeRange(r, lo, mid) \o utf16EncodeRange(r, mid + 1, hi)

utf16Encode(r) == utf16EncodeRange(r, 1, Len(r))

\* unit i is the second half of a surrogate pair
IsPairTail(u, i) ==
  i > 1 /\ IsHighSurrogate(u[i - 1]) /\ IsLowSurrogate(u[i])

utf16DecodeAt(u, i) ==
  IF IsHighSurrogate(u[i]) /\ i < Len(u) /\ IsLowSurrogate(u[i + 1])
    THEN 65536 + (u[i] - 55296) * 1024 + (u[i + 1] - 56320)
  ELSE IF IsHighSurrogate(u[i]) \/ IsLowSurrogate(u[i]) THEN RuneError
  ELSE u[i]

utf16Decode(u) ==
  LET idx == SelectSeq([i \in 1..Len(u) |-> i], LAMBDA i : ~IsPairTail(u, i))
  IN  Tuple([j \in 1..Len(idx) |-> utf16DecodeAt(u, idx[j])])

(***************************************************************************)
(* Values and results.                                                     *)
(***************************************************************************)
NilRP == << >>
ReparsePoint(t, mp, lx) ==
  << [Target |-> t, IsMountPoint |-> mp, IsLxSymlink |-> lx] >>

NoTag == << 0, 0 >>
NoError == [kind |-> "nil", Tag |-> NoTag]
UnsupportedReparsePointError(tag) ==
  [kind |-> "UnsupportedReparsePointError", Tag |-> tag]
LxTooShort == [kind |-> "LX symlink buffer too short", Tag |-> NoTag]
ReadError == [kind |-> "unexpected EOF", Tag |-> NoTag]

NoResult == [outcome |-> "none", rp |-> NilRP, err |-> NoError]
Return(p, e) == [outcome |-> "return", rp |-> p, err |-> e]
\* a run-time panic (slice bounds out of range): nothing is returned
Panic == [outcome |-> "panic", rp |-> NilRP, err |-> NoError]

(***************************************************************************)
(* Decoding.                                                               *)
(***************************************************************************)
\* a variant that reads the first pair of fields, the substitute name's
NameFields_Substitute(b) == << Uint16LE(b.arr, 0), Uint16LE(b.arr, 2) >>
\* the offset and length fields read: b[4:6] and b[6:8]
NameFields(b) == << Uint16LE(b.arr, 4), Uint16LE(b.arr, 6) >>

decodeWindowsReparsePointData(b, isMountPoint) ==
  IF ~SliceOK(b, 4, 6) \/ ~SliceOK(b, 6, 8) THEN Panic
  ELSE
    LET off == (8 + NameFields(b)[1]) % Pow16
        nameOffset == IF isMountPoint THEN off ELSE (off + 4) % Pow16
        nameLength == NameFields(b)[2]
        high == (nameOffset + nameLength) % Pow16
        n == nameLength \div 2
    IN  IF ~SliceOK(b, nameOffset, high) THEN Panic
        ELSE IF high - nameOffset < 2 * n THEN Return(NilRP, ReadError)
        ELSE LET name == ReadUint16s(SubSeq(b.arr, nameOffset + 1, high), n)
             IN  Return(ReparsePoint(StringOfRunes(utf16Decode(name)),
                                     isMountPoint, FALSE),
                        NoError)

\* a variant that asks for a byte of target
decodeLxReparsePointData_NeedsTarget(b) ==
  IF b.len <= 4 THEN Return(NilRP, LxTooShort)
  ELSE
    LET targetBytes == SubSeq(b.arr, 5, b.len)
        nuls == {i \in 1..Len(targetBytes) : targetBytes[i] = 0}
        first == CHOOSE i \in nuls : \A j \in nuls : i <= j
        target == IF nuls = {} THEN targetBytes
                  ELSE SubSeq(targetBytes, 1, first - 1)
    IN  Return(ReparsePoint(target, FALSE, TRUE), NoError)

decodeLxReparsePointData(b) ==
  IF b.len < 4 THEN Return(NilRP, LxTooShort)
  ELSE
    LET targetBytes == SubSeq(b.arr, 5, b.len)
        nuls == {i \in 1..Len(targetBytes) : targetBytes[i] = 0}
        first == CHOOSE i \in nuls : \A j \in nuls : i <= j
        target == IF nuls = {} THEN targetBytes
                  ELSE SubSeq(targetBytes, 1, first - 1)
    IN  Return(ReparsePoint(target, FALSE, TRUE), NoError)

\* a variant that takes a symlink for a mount point
DecodeReparsePointData_SymlinkAsMountPoint(tag, b) ==
  IF tag = reparseTagMountPoint THEN decodeWindowsReparsePointData(b, TRUE)
  ELSE IF tag = reparseTagSymlink THEN decodeWindowsReparsePointData(b, TRUE)
  ELSE IF tag = reparseTagLxSymlink THEN decodeLxReparsePointData(b)
  ELSE Return(NilRP, UnsupportedReparsePointError(tag))

DecodeReparsePointData(tag, b) ==
  IF tag = reparseTagMountPoint THEN decodeWindowsReparsePointData(b, TRUE)
  ELSE IF tag = reparseTagSymlink THEN decodeWindowsReparsePointData(b, FALSE)
  ELSE IF tag = reparseTagLxSymlink THEN decodeLxReparsePointData(b)
  ELSE Return(NilRP, UnsupportedReparsePointError(tag))

DecodeReparsePoint(b) ==
  IF ~SliceOK(b, 0, 4) THEN Panic
  ELSE IF b.len < 8 THEN Panic
  ELSE DecodeReparsePointData(Uint32LE(b.arr, 0), Slice(b, 8, b.len))

(***************************************************************************)
(* Encoding.  The encoders give the bytes written to the bytes.Buffer.     *)
(***************************************************************************)
isDriveLetter(c) == (c >= 97 /\ c <= 122) \/ (c >= 65 /\ c <= 90)

HasPrefix(s, p) == Len(s) >= Len(p) /\ SubSeq(s, 1, Len(p)) = p
Drop(s, n) == SubSeq(s, n + 1, Len(s))

LongPathPrefix == << 92, 92, 63, 92 >>            \* \\?\
UNCPrefix == << 92, 92 >>                         \* \\
NTPrefix == << 92, 63, 63, 92 >>                  \* \??\
NTUNCPrefix == << 92, 63, 63, 92, 85, 78, 67, 92 >>  \* \??\UNC\
Colon == 58

\* a variant that writes the version as 16 bits
encodeLxReparsePoint_ShortVersion(v) ==
  LET targetBytes == v.Target
      dataLength == 4 + Len(targetBytes)
  IN  PutUint32(reparseTagLxSymlink)
        \o PutUint16(dataLength % Pow16)
        \o PutUint16(0)
        \o PutUint16(lxSymlinkVersion)
        \o targetBytes

encodeLxReparsePoint(v) ==
  LET targetBytes == v.Target
      dataLength == 4 + Len(targetBytes)
  IN  PutUint32(reparseTagLxSymlink)
        \o PutUint16(dataLength % Pow16)
        \o PutUint16(0)
        \o PutUint32(<< 0, lxSymlinkVersion >>)
        \o targetBytes

IsRelative(t) ==
  /\ ~HasPrefix(t, LongPathPrefix)
  /\ ~HasPrefix(t, UNCPrefix)
  /\ ~(Len(t) >= 2 /\ isDriveLetter(t[1]) /\ t[2] = Colon)

\* a variant that leaves UNC\ out
NTTarget_NoUNC(t) ==
  IF HasPrefix(t, LongPathPrefix) THEN NTPrefix \o Drop(t, 4)
  ELSE IF HasPrefix(t, UNCPrefix) THEN NTPrefix \o Drop(t, 2)
  ELSE IF Len(t) >= 2 /\ isDriveLetter(t[1]) /\ t[2] = Colon THEN NTPrefix \o t
  ELSE t

NTTarget(t) ==
  IF HasPrefix(t, LongPathPrefix) THEN NTPrefix \o Drop(t, 4)
  ELSE IF HasPrefix(t, UNCPrefix) THEN NTUNCPrefix \o Drop(t, 2)
  ELSE IF Len(t) >= 2 /\ isDriveLetter(t[1]) /\ t[2] = Colon THEN NTPrefix \o t
  ELSE t

encodeWindowsReparsePoint(v) ==
  LET ntTarget == NTTarget(v.Target)
      relative == IsRelative(v.Target)
      target16 == utf16Encode(Runes(v.Target \o << 0 >>))
      ntTarget16 == utf16Encode(Runes(ntTarget \o << 0 >>))
      size == (sizeofReparseDataBuffer - 8)
                + Len(ntTarget16) * 2 + Len(target16) * 2
                + (IF v.IsMountPoint THEN 0 ELSE 4)
      tag == IF v.IsMountPoint THEN reparseTagMountPoint ELSE reparseTagSymlink
      data == PutUint32(tag)
                \o PutUint16(size % Pow16)
                \o PutUint16(0)
                \o PutUint16(0)
                \o PutUint16(((Len(ntTarget16) - 1) * 2) % Pow16)
                \o PutUint16((Len(ntTarget16) * 2) % Pow16)
                \o PutUint16(((Len(target16) - 1) * 2) % Pow16)
      flags == IF v.IsMountPoint THEN << >>
               ELSE PutUint32(<< 0, IF relative THEN 1 ELSE 0 >>)
  IN  data \o flags \o WriteUint16s(ntTarget16) \o WriteUint16s(target16)

\* the bytes EncodeReparsePoint writes for a non-nil value
EncodedBytes(v) ==
  IF v.IsLxSymlink THEN encodeLxReparsePoint(v)
  ELSE encodeWindowsReparsePoint(v)

\* a variant that gives an empty buffer for nil
EncodeReparsePoint_EmptyForNil(p, spare) ==
  IF p = NilRP THEN MkSlice(<< >>, spare)
  ELSE MkSlice(EncodedBytes(p[1]), spare)

\* spare is the capacity the bytes.Buffer holds beyond what was written
EncodeReparsePoint(p, spare) ==
  IF p = NilRP THEN NilSlice
  ELSE MkSlice(EncodedBytes(p[1]), spare)

(***************************************************************************)
(* Inputs of the round trip: the values handed to EncodeReparsePoint.      *)
(***************************************************************************)
RECURSIVE Strings(_, _)
\* the concatenations of at most n elements of the set of strings alphabet
Strings(alphabet, n) ==
  IF n = 0 THEN {<< >>}
  ELSE LET shorter == Strings(alphabet, n - 1)
       IN  shorter \cup {s \o c : s \in shorter, c \in alphabet}

\* nothing, \\?\, \\, C:, z:, \, \\?, 1:, C
Prefixes ==
  { << >>, LongPathPrefix, UNCPrefix, << 67, Colon >>, << 122, Colon >>,
    << 92 >>, << 92, 92, 63 >>, << 49, Colon >>, << 67 >> }

\* a, NUL, U+0444, U+1F600, a byte that is not UTF-8, \
Chars ==
  { << 97 >>, << 0 >>, << 209, 132 >>, << 240, 159, 152, 128 >>, << 255 >>,
    << 92 >> }

\* the targets of reparse_lx_test.go, and \\server\share
testLxSymlinkAbsolutePath ==
  << 47, 117, 115, 114, 47, 98, 105, 110, 47, 98, 97, 115, 104 >>
testWindowsSymlinkPath ==
  << 67, 58, 92, 87, 105, 110, 100, 111, 119, 115, 92, 83, 121, 115, 116,
     101, 109, 51, 50 >>
testLxSymlinkRelativePath == << 46, 46, 47, 98, 105, 110, 47, 115, 104 >>
testLxSymlinkSpecialCharsPath ==
  << 47, 112, 97, 116, 104, 47, 119, 105, 116, 104, 32, 115, 112, 97, 99,
     101, 115, 47, 97, 110, 100, 45, 115, 112, 101, 99, 105, 97, 108, 33,
     64, 35, 36, 37, 47, 209, 132, 208, 176, 208, 185, 208, 187, 46, 116,
     120, 116 >>
UNCSharePath ==
  << 92, 92, 115, 101, 114, 118, 101, 114, 92, 115, 104, 97, 114, 101 >>

TestTargets ==
  { testLxSymlinkAbsolutePath, testWindowsSymlinkPath,
    testLxSymlinkRelativePath, testLxSymlinkSpecialCharsPath, UNCSharePath }

\* targets whose encoding is as long as the 16-bit length fields can count:
\* a relative symlink of n characters has 4n + 16 bytes of data, an LX
\* symlink of n bytes has n + 4
LongLengths ==
  { Pow16 \div 4 - 5, Pow16 \div 4 - 4, Pow16 \div 4 - 3, Pow16 - 4 }
LongTargets == { Repeat(97, n) : n \in LongLengths }

Targets ==
  { p \o r : p \in Prefixes, r \in Strings(Chars, MaxLen) }
    \cup TestTargets \cup LongTargets

Values ==
  { ReparsePoint(t, mp, lx) : t \in Targets, mp \in BOOLEAN, lx \in BOOLEAN }

(***************************************************************************)
(* Inputs of decoding: the raw buffers a caller may hand over.             *)
(***************************************************************************)
\* 0x030000A0 (a byte-swapped mount point tag), 0xA000001E, 0x00000003
OtherTags == { << 768, 160 >>, << 40960, 30 >>, << 0, 3 >> }
Tags ==
  { reparseTagMountPoint, reparseTagSymlink, reparseTagLxSymlink }
    \cup OtherTags

SubstituteNameLengths == { 0, 2 }
PrintNameOffsets == { 0, 2, Pow16 - 8 }
PrintNameLengths == { 0, 2, 3, 4, Pow16 - 2 }
\* A, and the two halves of the surrogate pair of U+1F600
Units == { << 65 >>, << 55357 >>, << 56832 >> }

\* the four offset and length fields
Fields ==
  { PutUint16(0) \o PutUint16(sl) \o PutUint16(po) \o PutUint16(pl) :
      sl \in SubstituteNameLengths, po \in PrintNameOffsets,
      pl \in PrintNameLengths }

WindowsPayloads ==
  { f \o WriteUint16s(u) : f \in Fields, u \in Strings(Units, MaxUnits) }

Versions == { << 0, lxSymlinkVersion >>, << 0, 0 >>, << Pow16 - 1, Pow16 - 1 >> }
\* /, NUL, a byte that is not UTF-8
LxChars == { << 47 >>, << 0 >>, << 255 >> }
LxPayloads ==
  { PutUint32(v) \o t : v \in Versions, t \in Strings(LxChars, MaxLxBytes) }

Payloads == WindowsPayloads \cup LxPayloads

\* tag, data length, reserved, payload
RawArray(t, p) ==
  PutUint32(t) \o PutUint16(Len(p) % Pow16) \o PutUint16(0) \o p
RawArrays == { RawArray(t, p) : t \in Tags, p \in Payloads }
\* the arrays that end with the fields
BareArrays == { RawArray(t, f) : t \in Tags, f \in Fields }

\* the array a less its last cut bytes, handed over as a slice that is
\* shorter by s bytes than the array behind it
RawBuf(a, cut, s) ==
  LET t == SubSeq(a, 1, IF cut < Len(a) THEN Len(a) - cut ELSE 0)
  IN  [nil |-> FALSE, arr |-> t, len |-> IF s < Len(t) THEN Len(t) - s ELSE 0]

\* whole buffers, and buffers that lack their last byte
RawBufs ==
  { RawBuf(a, cut, s) : a \in RawArrays, cut \in 0..1, s \in 0..MaxSpare }
\* buffers cut short anywhere in the header or the fields
ShortBufs ==
  { RawBuf(a, cut, s) : a \in BareArrays, cut \in 0..16, s \in 0..MaxSpare }

(***************************************************************************)
(* The round trip: a caller encodes a value and decodes the buffer.        *)
(***************************************************************************)
Init ==
  /\ pc = "value"
  /\ rp = NilRP \/ rp \in Values
  /\ buf = NilSlice
  /\ res = NoResult

EncodeStep ==
  /\ pc = "value"
  /\ \E spare \in 0..MaxSpare : buf' = EncodeReparsePoint(rp, spare)
  /\ pc' = "buffer"
  /\ UNCHANGED << rp, res >>

DecodeStep ==
  /\ pc = "buffer"
  /\ res' = DecodeReparsePoint(buf)
  /\ pc' = "decoded"
  /\ UNCHANGED << rp, buf >>

Next == EncodeStep \/ DecodeStep

Spec == Init /\ [][Next]_vars

(***************************************************************************)
(* Decoding alone: a caller decodes a buffer that came from elsewhere.     *)
(***************************************************************************)
InitDecode ==
  /\ pc = "buffer"
  /\ rp = NilRP
  /\ buf = NilSlice \/ buf \in RawBufs \/ buf \in ShortBufs
  /\ res = NoResult

NextDecode == DecodeStep

SpecDecode == InitDecode /\ [][NextDecode]_vars

(***************************************************************************)
(* Both: the buffers decoded are those encoded and those from elsewhere.   *)
(***************************************************************************)
InitAll == Init \/ InitDecode

SpecAll == InitAll /\ [][Next]_vars

TypeOK ==
  /\ pc \in { "value", "buffer", "decoded" }
  /\ res.outcome \in { "none", "return", "panic" }
  /\ buf.len <= Cap(buf)

(***************************************************************************)
(* What the properties speak of.                                           *)
(***************************************************************************)
\* byte i (from 0) of the buffer's array
B(i) == buf.arr[i + 1]
\* the tag in the first four bytes, least significant byte first
BufTag == << B(2) + Pow8 * B(3), B(0) + Pow8 * B(1) >>
HasTag == buf.len >= 4
HasHeader == HasTag /\ buf.len >= 8
IsWindowsBuf ==
  HasTag /\ BufTag \in { reparseTagMountPoint, reparseTagSymlink }
\* the length of the payload, the bytes after the 8-byte header
PayloadLen == buf.len - 8

Encoded == pc \in { "buffer", "decoded" } /\ rp # NilRP
Decoded == pc = "decoded"
\* decoding returned a value and no error
Succeeded ==
  Decoded /\ res.outcome = "return" /\ res.err = NoError /\ res.rp # NilRP
\* decoding returned an error and no value
Failed ==
  Decoded /\ res.outcome = "return" /\ res.err # NoError /\ res.rp = NilRP

\* the string is well-formed UTF-8
ValidUTF8(s) ==
  \A i \in 1..Len(s) : IsStart(s, i) => (s[i] < 128 \/ SizeAt(s, i) > 1)
NulFree(s) == \A i \in 1..Len(s) : s[i] # 0

\* the UTF-16 little-endian text of the n bytes at offset from (from 0)
TextAt(from, n) ==
  StringOfRunes(utf16Decode(
    ReadUint16s(SubSeq(buf.arr, from + 1, from + n), n \div 2)))
\* the UTF-16 little-endian bytes of a string and its NUL terminator
WideZ(s) == WriteUint16s(utf16Encode(Runes(s \o << 0 >>)))

\* where the path area starts: after the header, the four offset and length
\* fields and, in a symlink, the flags
PathStart == IF BufTag = reparseTagMountPoint THEN 16 ELSE 20
SubstituteNameOffset == B(8) + Pow8 * B(9)
SubstituteNameLength == B(10) + Pow8 * B(11)
PrintNameOffset == B(12) + Pow8 * B(13)
PrintNameLength == B(14) + Pow8 * B(15)
\* the buffer holds the four fields and the name they locate
HoldsSubstituteName ==
  /\ IsWindowsBuf /\ buf.len >= 16
  /\ PathStart + SubstituteNameOffset + SubstituteNameLength <= buf.len
HoldsPrintName ==
  /\ IsWindowsBuf /\ buf.len >= 16
  /\ PathStart + PrintNameOffset + PrintNameLength <= buf.len

\* the buffer with the bytes from offset i (from 0) on replaced
WithBytes(b, i, bytes) ==
  [b EXCEPT !.arr = Tuple([j \in 1..Len(b.arr) |->
                             IF j > i /\ j <= i + Len(bytes)
                               THEN bytes[j - i] ELSE b.arr[j]])]
FieldValues == { 0, 2, 5, Pow16 - 1 }

(***************************************************************************)
(* Properties of the round trip (Spec).                                    *)
(***************************************************************************)
\* the substitute name the rewriting rules give for a target
RewrittenTarget(t) ==
  IF Len(t) >= 4 /\ t[1] = 92 /\ t[2] = 92 /\ t[3] = 63 /\ t[4] = 92
    THEN << 92, 63, 63, 92 >> \o SubSeq(t, 5, Len(t))
  ELSE IF Len(t) >= 2 /\ t[1] = 92 /\ t[2] = 92
    THEN << 92, 63, 63, 92, 85, 78, 67, 92 >> \o SubSeq(t, 3, Len(t))
  ELSE IF Len(t) >= 2 /\ (t[1] \in 65..90 \/ t[1] \in 97..122) /\ t[2] = 58
    THEN << 92, 63, 63, 92 >> \o t
  ELSE t

\* C1 as stated: a standard symlink or mount point, whatever its target
\* (a path: well-formed text of any length), decodes from its encoding
\* without error to the value encoded.
C1_AsStated ==
  (Decoded /\ rp # NilRP /\ ~rp[1].IsLxSymlink /\ ValidUTF8(rp[1].Target))
    => res = Return(rp, NoError)

\* C1 as amended: a standard symlink or mount point whose target is
\* well-formed text and whose encoding has at most 65535 bytes after the
\* 8-byte header decodes from its encoding without error to the value
\* encoded, equal in Target, IsMountPoint and IsLxSymlink.
C1_RoundTrip ==
  (Decoded /\ rp # NilRP /\ ~rp[1].IsLxSymlink /\ ValidUTF8(rp[1].Target)
     /\ PayloadLen < Pow16)
    => res = Return(rp, NoError)

C1_Witness ==
  /\ Decoded
  /\ rp = ReparsePoint(testWindowsSymlinkPath, FALSE, FALSE)
  /\ PayloadLen < Pow16
  /\ res = Return(rp, NoError)

\* C2: an LX symlink (IsLxSymlink, not IsMountPoint) whose target has no NUL
\* byte decodes from its encoding without error to the same target with
\* IsLxSymlink true and IsMountPoint false.
C2_LxRoundTrip ==
  (Decoded /\ rp # NilRP /\ rp[1].IsLxSymlink /\ ~rp[1].IsMountPoint
     /\ NulFree(rp[1].Target))
    => /\ Succeeded
       /\ res.rp[1].Target = rp[1].Target
       /\ res.rp[1].IsLxSymlink
       /\ ~res.rp[1].IsMountPoint

C2_Witness ==
  /\ Decoded
  /\ rp = ReparsePoint(testLxSymlinkSpecialCharsPath, FALSE, TRUE)
  /\ res = Return(rp, NoError)

\* C8: encoding a nil ReparsePoint gives a nil buffer, and encoding any
\* other value gives a buffer that is not nil.
C8_NilPropagation ==
  pc \in { "buffer", "decoded" }
    => /\ rp = NilRP => buf = NilSlice
       /\ rp # NilRP => ~buf.nil /\ buf.len > 0

C8_Witness == pc = "buffer" /\ rp = NilRP /\ buf.nil

\* C9: in the encoding of a standard symlink or mount point the substitute
\* name is the target rewritten to its NT form (\??\ for \\?\, \??\UNC\ for
\* \\, \??\ before a drive letter and colon, the target itself otherwise);
\* a symlink has after its 16-byte header a 4-byte flags field that is 1
\* exactly when the target was taken as it is and 0 otherwise, a mount
\* point has no flags field and its substitute name follows the header.
C9_NTRewriting ==
  (Encoded /\ ~rp[1].IsLxSymlink)
    => LET t == rp[1].Target
           wide == WideZ(RewrittenTarget(t))
           start == IF rp[1].IsMountPoint THEN 16 ELSE 20
       IN  /\ BufTag = (IF rp[1].IsMountPoint THEN reparseTagMountPoint
                        ELSE reparseTagSymlink)
           /\ SubstituteNameOffset = 0
           /\ buf.len >= start + Len(wide)
           /\ SubSeq(buf.arr, start + 1, start + Len(wide)) = wide
           /\ ~rp[1].IsMountPoint
                => SubSeq(buf.arr, 17, 20)
                     = << (IF RewrittenTarget(t) = t THEN 1 ELSE 0), 0, 0, 0 >>

C9_Witness ==
  /\ Encoded
  /\ rp = ReparsePoint(UNCSharePath, FALSE, FALSE)
  /\ SubSeq(buf.arr, 17, 20) = << 0, 0, 0, 0 >>
  /\ SubSeq(buf.arr, 21, 36) = << 92, 0, 63, 0, 63, 0, 92, 0, 85, 0, 78, 0, 67, 0, 92, 0 >>

\* C10 as stated: in every encoding the 16-bit data length at bytes 4-5 is
\* the number of bytes that follow the 8-byte header.
C10_AsStated == Encoded => B(4) + Pow8 * B(5) = buf.len - 8

\* C10 as amended: in every encoding the 16-bit data length at bytes 4-5 is
\* the number of bytes that follow the 8-byte header modulo 2^16 (that
\* number itself when it is at most 65535); the number is 8, plus 4 for a
\* symlink, plus the UTF-16 byte lengths of the NT target and of the target
\* with their terminators in the standard format, and 4 plus the byte
\* length of the target in the LX format.
C10_DataLength ==
  Encoded
    => /\ B(4) + Pow8 * B(5) = (buf.len - 8) % Pow16
       /\ buf.len - 8 =
            IF rp[1].IsLxSymlink THEN 4 + Len(rp[1].Target)
            ELSE 8 + (IF rp[1].IsMountPoint THEN 0 ELSE 4)
                   + Len(WideZ(RewrittenTarget(rp[1].Target)))
                   + Len(WideZ(rp[1].Target))

C10_Witness ==
  /\ Encoded
  /\ buf.len - 8 >= Pow16
  /\ B(4) + Pow8 * B(5) = (buf.len - 8) % Pow16

(***************************************************************************)
(* Properties of decoding (SpecDecode).                                    *)
(***************************************************************************)
\* the result of decoding the buffer with some of its bytes replaced
DecodedWith(i, bytes) == DecodeReparsePoint(WithBytes(buf, i, bytes))
\* the positions (from 0) after the header and the fields that are not in
\* the print name
OutsidePrintName ==
  { i \in 16..(Cap(buf) - 1) :
      i < PathStart + PrintNameOffset
        \/ i >= PathStart + PrintNameOffset + PrintNameLength }

C5_UnsupportedTag ==
  (Decoded /\ HasHeader
     /\ BufTag \notin { reparseTagMountPoint, reparseTagSymlink,
                        reparseTagLxSymlink })
    => res = Return(NilRP, UnsupportedReparsePointError(BufTag))

C5_Witness ==
  /\ Decoded /\ HasHeader /\ buf.len > 8
  /\ BufTag = << 768, 160 >>
  /\ res = Return(NilRP, UnsupportedReparsePointError(<< 768, 160 >>))

\* C6: an LX buffer with fewer than 4 bytes after its 8-byte header decodes
\* to the "buffer too short" error and no value; with 4 bytes or more it
\* decodes to an LX symlink, whatever the version field holds.
C6_LxTruncation ==
  (Decoded /\ HasHeader /\ BufTag = reparseTagLxSymlink)
    => IF PayloadLen < 4 THEN res = Return(NilRP, LxTooShort)
       ELSE Succeeded /\ res.rp[1].IsLxSymlink

C6_Witness ==
  /\ Decoded /\ HasHeader /\ BufTag = reparseTagLxSymlink
  /\ PayloadLen = 3 /\ Cap(buf) > buf.len
  /\ res = Return(NilRP, LxTooShort)

\* a symlink or mount point buffer too short for the header and the four
\* fields, or whose name reaches past its end
Malformed ==
  /\ IsWindowsBuf
  /\ \/ buf.len < 16
     \/ PathStart + PrintNameOffset + PrintNameLength > buf.len

\* C7 as stated: decoding a malformed symlink or mount point buffer returns
\* an error and no value.
C7_AsStated == (Decoded /\ Malformed) => Failed

(***************************************************************************)
(* Properties of every decoding (SpecAll).                                 *)
(***************************************************************************)
\* C4: the flags of a decoded value are those of the buffer's tag (mount
\* point: IsMountPoint only; symlink: neither; LX symlink: IsLxSymlink
\* only), never both; the encoding of a value without IsLxSymlink never
\* decodes to one with it, and the encoding of a value with IsLxSymlink
\* always decodes to one with it.
C4_TagExclusivity ==
  /\ Succeeded
       => /\ res.rp[1].IsMountPoint = (BufTag = reparseTagMountPoint)
          /\ res.rp[1].IsLxSymlink = (BufTag = reparseTagLxSymlink)
  /\ (Decoded /\ res.rp # NilRP)
       => ~(res.rp[1].IsMountPoint /\ res.rp[1].IsLxSymlink)
  /\ (Decoded /\ rp # NilRP /\ ~rp[1].IsLxSymlink)
       => ~(res.rp # NilRP /\ res.rp[1].IsLxSymlink)
  /\ (Decoded /\ rp # NilRP /\ rp[1].IsLxSymlink)
       => Succeeded /\ res.rp[1].IsLxSymlink

C4_Witness ==
  /\ Decoded /\ rp # NilRP
  /\ rp[1].IsMountPoint /\ rp[1].IsLxSymlink
  /\ Succeeded
  /\ res.rp[1].IsLxSymlink /\ ~res.rp[1].IsMountPoint
====
